---- MODULE Spec2Model ----
(***************************************************************************)
(* A model of the montecarlo package (src/montecarlo/montecarlo.py):       *)
(* Die (weighted outcome source), Game (trial runner) and Analyzer         *)
(* (statistics engine).  The program is sequential: every action below is  *)
(* one complete call of one public method, and `last` records what that    *)
(* call raised and returned.                                               *)
(*                                                                         *)
(* Weights are floats in the program; the inputs used here are small       *)
(* whole numbers, which float() represents exactly, so a weight is         *)
(* modelled by the integer of the same value.                              *)
(*                                                                         *)
(* src/montecarlo/DGA.py holds a second implementation of the same three  *)
(* classes; the package exports the classes of montecarlo.py               *)
(* (src/montecarlo/__init__.py), and those are the ones modelled.          *)
(*                                                                         *)
(* One Game object and one Analyzer variable are modelled: Game(...) is    *)
(* called until it returns a Game, and Analyzer(game) may be called again,  *)
(* the variable then holding the new Analyzer.                             *)
(*                                                                         *)
(* A pandas DataFrame of results is modelled as [data |-> <<col_0, ...>>]  *)
(* where col_j is the list of values of column j (column key j-1 in the    *)
(* program, which numbers its columns from 0); `none` tells the Python     *)
(* value None from a frame.                                                *)
(***************************************************************************)
EXTENDS Integers, Sequences, FiniteSets

VARIABLES dice, game, analyzer, last

vars == <<dice, game, analyzer, last>>

\* Largest num_rolls a caller passes to roll() and play().
MaxRolls == 2

\* The Die objects a caller holds.
DieIds == {"d1", "d2"}

\* Values a caller passes as a face to change_weight.
Labels == {1, 2, 3}

\* Python values passed as new_weight: ints, strings and None.
IntVal(v) == [type |-> "int", v |-> v, s |-> ""]
StrVal(s) == [type |-> "str", v |-> 0, s |-> s]
NoneVal == [type |-> "none", v |-> 0, s |-> ""]

WeightInputs == {IntVal(-1), IntVal(0), IntVal(1), StrVal("abc")}

\* Values passed as faces to Die(...): NumPy arrays and one plain list.
NdArray(elems) == [ndarray |-> TRUE, elems |-> elems]
PyList(elems) == [ndarray |-> FALSE, elems |-> elems]

FaceInputs ==
    {NdArray(<<1, 2>>), NdArray(<<2, 1>>), NdArray(<<1, 3>>), NdArray(<<1, 1>>),
     NdArray(<<>>), PyList(<<1, 2>>)}

RollCounts == 0..MaxRolls

----------------------------------------------------------------------------
(* Python and NumPy helpers *)

Range(s) == {s[i] : i \in DOMAIN s}

RECURSIVE Insert(_, _)
Insert(x, s) ==
    IF s = <<>> THEN <<x>>
    ELSE IF x <= Head(s) THEN <<x>> \o s
    ELSE <<Head(s)>> \o Insert(x, Tail(s))

\* sorted(row): the values in ascending order, repeats kept.
RECURSIVE Sorted(_)
Sorted(s) == IF s = <<>> THEN <<>> ELSE Insert(Head(s), Sorted(Tail(s)))

RECURSIVE Dedup(_)
Dedup(s) ==
    IF Len(s) <= 1 THEN s
    ELSE IF s[1] = s[2] THEN Dedup(Tail(s))
    ELSE <<s[1]>> \o Dedup(Tail(s))

\* np.unique(a): the sorted distinct elements of a.
NpUnique(elems) == Dedup(Sorted(elems))

\* float(x): the number, or the exception float() raises.
Float(x) ==
    IF x.type = "int" THEN [ok |-> TRUE, v |-> x.v, exc |-> "none"]
    ELSE IF x.type = "str"
        THEN IF x.s = "0" THEN [ok |-> TRUE, v |-> 0, exc |-> "none"]
             ELSE [ok |-> FALSE, v |-> 0, exc |-> "ValueError"]
    ELSE [ok |-> FALSE, v |-> 0, exc |-> "TypeError"]

\* What a call left behind: the exception it raised ("none" if it returned)
\* and the value it returned.
Outcome(op, arg, raised, ret) == [op |-> op, arg |-> arg, raised |-> raised, ret |-> ret]

----------------------------------------------------------------------------
(* Die *)

NoDie == [exists |-> FALSE, faces |-> <<>>, df |-> <<>>]

\* Die.__init__ past its checks: faces kept, every weight 1.0.
NewDie(elems) ==
    [exists |-> TRUE,
     faces |-> elems,
     df |-> [i \in 1..Len(elems) |-> [face |-> elems[i], weight |-> 1]]]

\* The exception Die.__init__ raises on this argument, or "none".
DieInitRaises(faces) ==
    IF ~faces.ndarray THEN "TypeError"
    ELSE IF Len(NpUnique(faces.elems)) # Len(faces.elems) THEN "ValueError"
    ELSE "none"

DieInit(d, faces) ==
    /\ ~dice[d].exists
    /\ LET exc == DieInitRaises(faces) IN
        /\ dice' = IF exc = "none" THEN [dice EXCEPT ![d] = NewDie(faces.elems)] ELSE dice
        /\ last' = Outcome("Die", d, exc, <<>>)
    /\ UNCHANGED <<game, analyzer>>

\* self._df.index
Index(df) == [i \in 1..Len(df) |-> df[i].face]

\* self._df['weight']
WeightColumn(df) == [i \in 1..Len(df) |-> df[i].weight]

\* self._df.loc[face, 'weight'] = w
SetLoc(df, face, w) ==
    [i \in 1..Len(df) |-> IF df[i].face = face THEN [df[i] EXCEPT !.weight = w] ELSE df[i]]

\* The exception change_weight raises, or "none".
ChangeWeightRaises(die, face, new_weight) ==
    IF face \notin Range(Index(die.df)) THEN "IndexError"
    ELSE IF ~Float(new_weight).ok THEN "TypeError"
    ELSE "none"

\* The die after change_weight(face, new_weight).
ChangeWeightDie(die, face, new_weight) ==
    IF ChangeWeightRaises(die, face, new_weight) # "none" THEN die
    ELSE [die EXCEPT !.df = SetLoc(die.df, face, Float(new_weight).v)]

ChangeWeight(d, face, new_weight) ==
    /\ dice[d].exists
    /\ dice' = [dice EXCEPT ![d] = ChangeWeightDie(dice[d], face, new_weight)]
    /\ last' = Outcome("change_weight", new_weight,
                       ChangeWeightRaises(dice[d], face, new_weight), <<>>)
    /\ UNCHANGED <<game, analyzer>>

RECURSIVE Sum(_)
Sum(s) == IF s = <<>> THEN 0 ELSE Head(s) + Sum(Tail(s))

\* np.random.choice(a, p = w / w.sum()) rejects p when a is empty, when p
\* holds a NaN or sums to NaN (w.sum() = 0 gives 0/0 or +inf and -inf), and
\* when some p[i] < 0 (w[i] and w.sum() of opposite sign).
ChoiceRejects(df) ==
    LET w == WeightColumn(df)
        total == Sum(w)
    IN \/ Len(df) = 0
       \/ total = 0
       \/ \E i \in 1..Len(w) : w[i] * total < 0

\* The faces np.random.choice can return: those with p[i] > 0.
Support(df) ==
    LET total == Sum(WeightColumn(df))
    IN {df[i].face : i \in {k \in 1..Len(df) : df[k].weight * total > 0}}

\* The exception roll(num_rolls) raises, or "none".
RollRaises(die, num_rolls) ==
    IF num_rolls < 1 THEN "ValueError"
    ELSE IF ChoiceRejects(die.df) THEN "ValueError"
    ELSE "none"

\* The lists roll(num_rolls) can return.
RollResults(die, num_rolls) ==
    IF RollRaises(die, num_rolls) # "none" THEN {}
    ELSE [1..num_rolls -> Support(die.df)]

Roll(d, num_rolls) ==
    /\ dice[d].exists
    /\ \/ /\ RollRaises(dice[d], num_rolls) # "none"
          /\ last' = Outcome("roll", <<d, num_rolls>>, RollRaises(dice[d], num_rolls), <<>>)
       \/ \E results \in RollResults(dice[d], num_rolls) :
            last' = Outcome("roll", <<d, num_rolls>>, "none", results)
    /\ UNCHANGED <<dice, game, analyzer>>

----------------------------------------------------------------------------
(* Game *)

NoFrame == [none |-> TRUE, data |-> <<>>]

NoGame == [exists |-> FALSE, dice |-> <<>>, results |-> NoFrame]

NoAnalyzer == [exists |-> FALSE, results |-> NoFrame]

\* Values passed as elements of dice_list: Die objects and one non-Die value.
NotADie == "x"

\* Lists passed to Game(...).
DiceLists == {<<>>, <<"d1">>, <<"d1", "d2">>, <<"d2", "d1">>, <<"d1", NotADie>>}

\* Values passed as form to show().
Forms == {"wide", "narrow", "long"}

\* np.array_equal(a, b): same shape and same element at every position.
ArrayEqual(a, b) ==
    /\ Len(a) = Len(b)
    /\ \A i \in 1..Len(a) : a[i] = b[i]

\* The exception Game.__init__ raises, or "none".
GameInitRaises(dice_list, ds) ==
    IF \E i \in 1..Len(dice_list) : dice_list[i] \notin DieIds THEN "TypeError"
    ELSE IF Len(dice_list) = 0 THEN "IndexError"
    ELSE IF \E i \in 2..Len(dice_list) :
                ~ArrayEqual(ds[dice_list[i]].faces, ds[dice_list[1]].faces)
        THEN "ValueError"
    ELSE "none"

\* Game.__init__ past its checks: the list itself is kept, no results yet.
NewGame(dice_list) == [exists |-> TRUE, dice |-> dice_list, results |-> NoFrame]

GameInit(dice_list) ==
    /\ ~game.exists
    /\ \A i \in 1..Len(dice_list) : dice_list[i] \in DieIds => dice[dice_list[i]].exists
    /\ LET exc == GameInitRaises(dice_list, dice) IN
        /\ game' = IF exc = "none" THEN NewGame(dice_list) ELSE game
        /\ last' = Outcome("Game", dice_list, exc, <<>>)
    /\ UNCHANGED <<dice, analyzer>>

\* pd.DataFrame(roll_data): one column per key, in key order.
DataFrame(roll_data) == [none |-> FALSE, data |-> roll_data]

\* pd.DataFrame()
EmptyFrame == DataFrame(<<>>)

NumCols(frame) == Len(frame.data)

NumRows(frame) == IF frame.data = <<>> THEN 0 ELSE Len(frame.data[1])

\* The cell of row i (1-based) and column j (1-based).
Cell(frame, i, j) == frame.data[j][i]

\* The first die of the list, in list order, whose roll raises; 0 if none does.
FirstRaising(g, ds, num_rolls) ==
    LET bad == {i \in 1..Len(g.dice) : RollRaises(ds[g.dice[i]], num_rolls) # "none"}
    IN IF bad = {} THEN 0 ELSE CHOOSE i \in bad : \A k \in bad : i <= k

\* The roll_data dictionaries the loop of play() can build: entry i is a
\* list die i can return.  The loop stops at the first die that raises, so
\* only the dice before it have an entry.
RollData(g, ds, num_rolls) ==
    LET stop == FirstRaising(g, ds, num_rolls)
        upto == IF stop = 0 THEN Len(g.dice) ELSE stop - 1
    IN {rd \in [1..upto -> UNION {RollResults(ds[g.dice[i]], num_rolls) : i \in 1..upto}] :
            \A i \in 1..upto : rd[i] \in RollResults(ds[g.dice[i]], num_rolls)}

\* A variant of ResultsOnRaise that stores the columns built so far.
ResultsOnRaisePartial(prev, roll_data) == [none |-> FALSE, data |-> roll_data]

\* self._results when play() leaves by an exception: the assignment of
\* line 140 was not reached.
ResultsOnRaise(prev, roll_data) == prev

\* A variant of ResultsOnReturn that appends the new rows to the stored ones.
ResultsOnReturnAppend(prev, roll_data) ==
    IF prev.none THEN [none |-> FALSE, data |-> roll_data]
    ELSE [none |-> FALSE,
          data |-> [j \in 1..Len(roll_data) |-> prev.data[j] \o roll_data[j]]]

\* self._results = pd.DataFrame(roll_data)
ResultsOnReturn(prev, roll_data) == DataFrame(roll_data)

\* The exception play(num_rolls) raises, or "none".
PlayRaises(g, ds, num_rolls) ==
    IF num_rolls < 1 THEN "ValueError"
    ELSE IF FirstRaising(g, ds, num_rolls) # 0 THEN "ValueError"
    ELSE "none"

Play(num_rolls) ==
    /\ game.exists
    /\ \/ /\ num_rolls < 1
          /\ game' = [game EXCEPT !.results = ResultsOnRaise(game.results, <<>>)]
       \/ /\ num_rolls >= 1
          /\ \E roll_data \in RollData(game, dice, num_rolls) :
                game' = [game EXCEPT !.results =
                            IF FirstRaising(game, dice, num_rolls) # 0
                            THEN ResultsOnRaise(game.results, roll_data)
                            ELSE ResultsOnReturn(game.results, roll_data)]
    /\ last' = Outcome("play", num_rolls, PlayRaises(game, dice, num_rolls), <<>>)
    /\ UNCHANGED <<dice, analyzer>>

\* frame.copy()
Copy(frame) == frame

\* A variant of Melt that emits the records row after row.
MeltRowMajor(frame) ==
    LET n == IF frame.data = <<>> THEN 0 ELSE Len(frame.data[1])
        k == Len(frame.data)
    IN [p \in 1..(n * k) |->
            LET i == ((p - 1) \div k) + 1
                j == ((p - 1) % k) + 1
            IN [roll_number |-> i - 1, die_number |-> j - 1, face |-> frame.data[j][i]]]

\* frame.reset_index().melt(id_vars = ["roll number"], ...): one record per
\* cell; melt stacks the value columns one after the other, so the records
\* of column 0 come first, then those of column 1, and so on.
Melt(frame) ==
    LET n == NumRows(frame)
        k == NumCols(frame)
    IN [p \in 1..(n * k) |->
            LET j == ((p - 1) \div n) + 1
                i == ((p - 1) % n) + 1
            IN [roll_number |-> i - 1, die_number |-> j - 1, face |-> Cell(frame, i, j)]]

\* The exception show(form) raises, or "none".
ShowRaises(g, form) ==
    IF g.results.none THEN "none"
    ELSE IF form = "wide" THEN "none"
    ELSE IF form = "narrow" THEN "none"
    ELSE "ValueError"

\* The value show(form) returns, when it returns.
ShowReturns(g, form) ==
    IF g.results.none THEN EmptyFrame
    ELSE IF form = "wide" THEN Copy(g.results)
    ELSE Melt(g.results)

Show(form) ==
    /\ game.exists
    /\ last' = Outcome("show", form, ShowRaises(game, form),
                       IF ShowRaises(game, form) = "none" THEN ShowReturns(game, form) ELSE <<>>)
    /\ UNCHANGED <<dice, game, analyzer>>

----------------------------------------------------------------------------
(* Analyzer *)

\* Analyzer.__init__ past its check: self.results = game.show('wide').
NewAnalyzer(g) == [exists |-> TRUE, results |-> ShowReturns(g, "wide")]

\* The exception Analyzer.__init__ raises, or "none".
AnalyzerInitRaises(is_game) == IF is_game THEN "none" ELSE "ValueError"

AnalyzerInit(is_game) ==
    /\ game.exists
    /\ analyzer' = IF is_game THEN NewAnalyzer(game) ELSE analyzer
    /\ last' = Outcome("Analyzer", is_game, AnalyzerInitRaises(is_game), <<>>)
    /\ UNCHANGED <<dice, game>>

\* A variant of AnalyzerResults that reads the runner's current table.
AnalyzerResultsLive(an, g) == IF g.results.none THEN [none |-> FALSE, data |-> <<>>] ELSE g.results

\* The table the statistics are computed from: self.results.
AnalyzerResults(an, g) == an.results

\* tuple(row) for every row of the frame, in row order.
RowTuples(frame) ==
    [i \in 1..NumRows(frame) |-> [j \in 1..NumCols(frame) |-> Cell(frame, i, j)]]

\* tuple(sorted(row)) for every row of the frame, in row order.
SortedRowTuples(frame) ==
    [i \in 1..NumRows(frame) |-> Sorted(RowTuples(frame)[i])]

\* A variant of ValueCounts that lists every distinct value once.
ValueCountsUnique(series) == {[key |-> k, count |-> 1] : k \in Range(series)}

\* series.value_counts(): every distinct value with the number of rows that
\* hold it.
ValueCounts(series) ==
    {[key |-> k, count |-> Cardinality({i \in DOMAIN series : series[i] = k})] :
        k \in Range(series)}

\* Tuples of one length in ascending order, compared position by position.
RECURSIVE TupleLeq(_, _)
TupleLeq(a, b) ==
    IF a = <<>> THEN TRUE
    ELSE IF Head(a) < Head(b) THEN TRUE
    ELSE IF Head(a) > Head(b) THEN FALSE
    ELSE TupleLeq(Tail(a), Tail(b))

\* counts.sort_index(): the entries in ascending order of their key.
RECURSIVE SortIndex(_)
SortIndex(counts) ==
    IF counts = {} THEN <<>>
    ELSE LET first == CHOOSE x \in counts : \A y \in counts : TupleLeq(x.key, y.key)
         IN <<first>> \o SortIndex(counts \ {first})

\* The exception combo() and permutation() raise, or "none": with no row
\* to count, pd.MultiIndex.from_tuples is handed an empty index and raises.
CountsRaise(frame) == IF NumRows(frame) = 0 THEN "TypeError" ELSE "none"

\* The table combo() returns, as its (key, count) rows in order.
ComboTable(frame) == SortIndex(ValueCounts(SortedRowTuples(frame)))

\* The table permutation() returns, as its (key, count) rows in order.
PermutationTable(frame) == SortIndex(ValueCounts(RowTuples(frame)))

\* A variant of Nunique that counts the cells of the row.
NuniqueCount(row) == Len(row)

\* nunique of one row: the number of distinct values in it.
Nunique(row) == Cardinality(Range(row))

\* self.results.nunique(axis = 1) == 1: for every row, whether it holds
\* one distinct value.
JackpotFlags(frame) == [i \in 1..NumRows(frame) |-> Nunique(RowTuples(frame)[i]) = 1]

\* jackpots.sum(): the number of rows flagged.
JackpotCount(frame) ==
    Cardinality({i \in DOMAIN JackpotFlags(frame) : JackpotFlags(frame)[i]})

Jackpot ==
    /\ analyzer.exists
    /\ last' = Outcome("jackpot", <<>>, "none", JackpotCount(AnalyzerResults(analyzer, game)))
    /\ UNCHANGED <<dice, game, analyzer>>

Combo ==
    /\ analyzer.exists
    /\ LET frame == AnalyzerResults(analyzer, game) IN
        last' = Outcome("combo", <<>>, CountsRaise(frame),
                        IF CountsRaise(frame) = "none" THEN ComboTable(frame) ELSE <<>>)
    /\ UNCHANGED <<dice, game, analyzer>>

Permutation ==
    /\ analyzer.exists
    /\ LET frame == AnalyzerResults(analyzer, game) IN
        last' = Outcome("permutation", <<>>, CountsRaise(frame),
                        IF CountsRaise(frame) = "none" THEN PermutationTable(frame) ELSE <<>>)
    /\ UNCHANGED <<dice, game, analyzer>>

----------------------------------------------------------------------------
(* A die on its own: construction, weight changes and rolls. *)

InitDie ==
    /\ dice = [d \in DieIds |-> NoDie]
    /\ game = NoGame
    /\ analyzer = NoAnalyzer
    /\ last = Outcome("start", <<>>, "none", <<>>)

NextDie ==
    \/ \E d \in DieIds, faces \in FaceInputs : DieInit(d, faces)
    \/ \E d \in DieIds, face \in Labels, w \in WeightInputs : ChangeWeight(d, face, w)
    \/ \E d \in DieIds, n \in RollCounts : Roll(d, n)

SpecDie == InitDie /\ [][NextDie]_vars

----------------------------------------------------------------------------
(* A runner over two dice the caller has constructed and keeps changing. *)

\* The arrays the second die was constructed from.
SecondFaces == {<<1, 2>>, <<2, 1>>, <<1, 3>>}

Init ==
    /\ \E f \in SecondFaces : dice = [d \in DieIds |-> IF d = "d1" THEN NewDie(<<1, 2>>) ELSE NewDie(f)]
    /\ game = NoGame
    /\ analyzer = NoAnalyzer
    /\ last = Outcome("start", <<>>, "none", <<>>)

Next ==
    \/ \E d \in DieIds, face \in Labels, w \in WeightInputs : ChangeWeight(d, face, w)
    \/ \E dice_list \in DiceLists : GameInit(dice_list)
    \/ \E n \in RollCounts : Play(n)
    \/ \E form \in Forms : Show(form)

Spec == Init /\ [][Next]_vars

----------------------------------------------------------------------------
(* An analyzer over a runner that is played again and again. *)

\* The lists the runner was constructed from.
AnalyzedLists == {<<"d1">>, <<"d1", "d2">>}

InitAnalyzer ==
    /\ dice = [d \in DieIds |-> NewDie(<<1, 2>>)]
    /\ \E dice_list \in AnalyzedLists : game = NewGame(dice_list)
    /\ analyzer = NoAnalyzer
    /\ last = Outcome("start", <<>>, "none", <<>>)

NextAnalyzer ==
    \/ \E n \in RollCounts : Play(n)
    \/ \E is_game \in BOOLEAN : AnalyzerInit(is_game)
    \/ Combo
    \/ Permutation
    \/ Jackpot

SpecAnalyzer == InitAnalyzer /\ [][NextAnalyzer]_vars

----------------------------------------------------------------------------
(* Properties *)

IsNegative(x) == x.type = "int" /\ x.v < 0

Weights(die) == Range(WeightColumn(die.df))

\* The weight of a face on a die.
WeightOf(die, face) ==
    LET i == CHOOSE k \in 1..Len(die.df) : die.df[k].face = face
    IN die.df[i].weight

\* set(faces)
LabelSet(die) == Range(die.faces)

RECURSIVE SumCounts(_)
SumCounts(table) == IF table = <<>> THEN 0 ELSE Head(table).count + SumCounts(Tail(table))

\* C1: change_weight with a negative weight raises, and so no die ever
\* holds a negative weight.
C1_NegativeWeightRejected ==
    /\ (last.op = "change_weight" /\ IsNegative(last.arg)) => last.raised # "none"
    /\ \A d \in DieIds : \A w \in Weights(dice[d]) : w >= 0

\* C2: Game(dice_list) on a non-empty list of dice raises exactly when two
\* of the dice differ in their set of faces, whatever the order of the faces.
C2_LabelSetsComparedAsSets ==
    (last.op = "Game" /\ Len(last.arg) > 0 /\ Range(last.arg) \subseteq DieIds)
        => ((last.raised # "none")
                <=> \E a, b \in Range(last.arg) : LabelSet(dice[a]) # LabelSet(dice[b]))

\* C3: a play(n) that returns leaves a table of exactly n rows and one
\* column per die of the list, column j holding values die j can roll; no
\* other call changes the stored table.
C3_PlayReplacesTable ==
    [][/\ (last'.op = "play" /\ last'.raised = "none")
            => /\ ~game'.results.none
               /\ NumCols(game'.results) = Len(game'.dice)
               /\ \A j \in 1..NumCols(game'.results) :
                    /\ Len(game'.results.data[j]) = last'.arg
                    /\ Range(game'.results.data[j]) \subseteq Support(dice'[game'.dice[j]].df)
       /\ last'.op # "play" => game'.results = game.results]_vars

\* C3 witness: a play of two rolls of two dice has returned and its two
\* columns differ.
C3_Witness ==
    /\ last.op = "play" /\ last.raised = "none" /\ last.arg = 2
    /\ NumCols(game.results) = 2
    /\ game.results.data[1] # game.results.data[2]

\* C4: a play that raises leaves the stored table as it was.
C4_FailedPlayKeepsTable ==
    [][(last'.op = "play" /\ last'.raised # "none")
            => /\ game'.results = game.results
               /\ ShowReturns(game', "wide") = ShowReturns(game, "wide")]_vars

\* C4 witness: a play with a positive count has raised at the second die of
\* the list, the first die being rollable, while a table was stored.
C4_Witness ==
    /\ last.op = "play" /\ last.raised # "none" /\ last.arg >= 1
    /\ Len(game.dice) = 2
    /\ RollRaises(dice[game.dice[1]], last.arg) = "none"
    /\ ~game.results.none

\* C5: roll on a die whose weights are all zero raises and returns nothing,
\* and roll returns only when some weight of the die is positive.
C5_DrawNeedsPositiveWeight ==
    last.op = "roll"
        => LET die == dice[last.arg[1]] IN
            /\ Weights(die) = {0} => (last.raised # "none" /\ last.ret = <<>>)
            /\ last.raised = "none" => \E w \in Weights(die) : w > 0

\* C6: once an analyzer exists, a play on its runner, whether it returns or
\* raises, leaves unchanged the table the analyzer computes from, and with
\* it every statistic (each is a function of that table alone) and whether
\* computing one raises.
C6_SnapshotUnchangedByPlay ==
    [][(analyzer.exists /\ last'.op = "play")
            => /\ analyzer'.exists
               /\ AnalyzerResults(analyzer', game') = AnalyzerResults(analyzer, game)
               /\ CountsRaise(AnalyzerResults(analyzer', game'))
                    = CountsRaise(AnalyzerResults(analyzer, game))]_vars

\* C6 witness: a play has returned after the analyzer was constructed and
\* the runner's table is no longer the analyzer's.
C6_Witness ==
    /\ analyzer.exists
    /\ NumRows(analyzer.results) > 0
    /\ last.op = "play" /\ last.raised = "none"
    /\ game.results # analyzer.results

\* C7: every cell of column j of the table a play leaves is a face whose
\* weight on die j is positive at that play.
C7_CellsHavePositiveWeight ==
    (last.op = "play" /\ last.raised = "none")
        => \A j \in 1..NumCols(game.results) : \A i \in 1..NumRows(game.results) :
                WeightOf(dice[game.dice[j]], Cell(game.results, i, j)) > 0

\* C8: the counts of combo() and of permutation() each sum to the number
\* of rows of the analyzer's table, every permutation key sorts to exactly
\* one combo key, and the counts of the permutation keys that sort to a
\* combo key sum to the count of that combo key.
C8_CombosAndPermutations ==
    LET frame == AnalyzerResults(analyzer, game)
        combos == ComboTable(frame)
        perms == PermutationTable(frame)
    IN /\ (last.op = "combo" /\ last.raised = "none") => SumCounts(last.ret) = NumRows(frame)
       /\ (last.op = "permutation" /\ last.raised = "none") => SumCounts(last.ret) = NumRows(frame)
       /\ (analyzer.exists /\ NumRows(frame) > 0)
            => /\ SumCounts(combos) = NumRows(frame)
               /\ SumCounts(perms) = NumRows(frame)
               /\ \A p \in DOMAIN perms :
                    Cardinality({c \in DOMAIN combos : combos[c].key = Sorted(perms[p].key)}) = 1
               /\ \A c \in DOMAIN combos :
                    combos[c].count =
                        SumCounts(SelectSeq(perms, LAMBDA e : Sorted(e.key) = combos[c].key))

\* C8 witness: permutation() has returned two keys that sort to one combo
\* key.
C8_Witness ==
    /\ last.op = "permutation" /\ last.raised = "none"
    /\ Len(last.ret) = 2
    /\ Len(ComboTable(AnalyzerResults(analyzer, game))) = 1

\* C9 as stated: show('narrow') returns one record per cell in row-major
\* order, so the records taken in order fill the table row by row.
C9_NarrowIsRowMajor ==
    (last.op = "show" /\ last.arg = "narrow" /\ ~game.results.none)
        => LET n == NumRows(game.results)
               k == NumCols(game.results)
           IN /\ Len(last.ret) = n * k
              /\ \A i \in 1..n : \A j \in 1..k :
                    last.ret[(i - 1) * k + j] =
                        [roll_number |-> i - 1, die_number |-> j - 1,
                         face |-> Cell(game.results, i, j)]

\* C9 amended: show('narrow') returns one record per cell in column-major
\* order, so the records taken in order fill the table column by column.
C9_NarrowIsColumnMajor ==
    (last.op = "show" /\ last.arg = "narrow" /\ ~game.results.none)
        => LET n == NumRows(game.results)
               k == NumCols(game.results)
           IN /\ Len(last.ret) = n * k
              /\ \A i \in 1..n : \A j \in 1..k :
                    last.ret[(j - 1) * n + i] =
                        [roll_number |-> i - 1, die_number |-> j - 1,
                         face |-> Cell(game.results, i, j)]

\* C9 witness: show('narrow') has returned the records of a table of two
\* rows and two columns that is not equal to its transpose.
C9_Witness ==
    /\ last.op = "show" /\ last.arg = "narrow" /\ last.raised = "none"
    /\ NumRows(game.results) = 2 /\ NumCols(game.results) = 2
    /\ Cell(game.results, 1, 2) # Cell(game.results, 2, 1)

\* C10: show(form) raises for every form other than 'wide' and 'narrow',
\* before any play as well as after one, and returns an empty result for
\* 'wide' and 'narrow' before any play.
C10_UnknownFormAlwaysRaises ==
    last.op = "show"
        => /\ last.arg \notin {"wide", "narrow"} => last.raised = "ValueError"
           /\ (last.arg \in {"wide", "narrow"} /\ game.results.none)
                => (last.raised = "none" /\ last.ret = EmptyFrame)

\* C11: jackpot() returns the number of rows of the analyzer's table whose
\* cells are all the same face, which is at most the number of rows, and is
\* the number of rows when the runner has a single die.
C11_JackpotCount ==
    (last.op = "jackpot" /\ last.raised = "none")
        => LET frame == AnalyzerResults(analyzer, game) IN
            /\ last.ret =
                Cardinality({i \in 1..NumRows(frame) :
                                \A j, k \in 1..NumCols(frame) :
                                    Cell(frame, i, j) = Cell(frame, i, k)})
            /\ last.ret <= NumRows(frame)
            /\ Len(game.dice) = 1 => last.ret = NumRows(frame)

\* C11 witness: jackpot() has returned 1 for a table of two rows and two
\* columns, one row a jackpot and the other not.
C11_Witness ==
    /\ last.op = "jackpot" /\ last.ret = 1
    /\ NumRows(AnalyzerResults(analyzer, game)) = 2
    /\ NumCols(AnalyzerResults(analyzer, game)) = 2

\* C12: every die that exists has at least one face, its faces pairwise
\* distinct, and a die just constructed has weight 1.0 on every face
\* (Die(faces) raises on an empty array and on an array with a repeat).
C12_DieHasDistinctFaces ==
    /\ \A d \in DieIds :
        dice[d].exists
            => /\ Len(dice[d].faces) >= 1
               /\ \A i, k \in 1..Len(dice[d].faces) :
                    i # k => dice[d].faces[i] # dice[d].faces[k]
    /\ (last.op = "Die" /\ last.raised = "none")
            => /\ dice[last.arg].exists
               /\ Weights(dice[last.arg]) = {1}

====
